---- MODULE Spec2Model ----
(***************************************************************************)
(* Model of bot.py: the POST /api/chat handler (chat) and the response     *)
(* sanitizer (clean_response).                                             *)
(*                                                                         *)
(* A Python str is a sequence of characters, each a one-character string   *)
(* (the backtick is the atom Backtick).  None is the one-element sequence  *)
(* NoneText, whose element is no character.                                *)
(***************************************************************************)
EXTENDS Naturals, Sequences, FiniteSets

(***************************************************************************)
(* Text helpers (str operations the code uses).                            *)
(***************************************************************************)

NoneText == <<"None">>

\* Python truthiness of a str-or-None value: not text.
IsFalsy(t) == t = <<>> \/ t = NoneText

\* The characters matched by \s and removed by str.strip().
IsSpace(c) == c \in {" ", "\n", "\t", "\r"}

\* t occurs in s at index i (1-based).
OccursAt(s, t, i) ==
    /\ i >= 1
    /\ i + Len(t) - 1 <= Len(s)
    /\ SubSeq(s, i, i + Len(t) - 1) = t

\* Python's  t in s.
Contains(s, t) == \E i \in 1..(Len(s) + 1) : OccursAt(s, t, i)

\* Python's s.endswith(t).
EndsWith(s, t) == Len(t) <= Len(s) /\ OccursAt(s, t, Len(s) - Len(t) + 1)

\* Python's s.count(t) for non-empty t restricted to possibly overlapping
\* occurrences: the number of indices at which t occurs.
Occurrences(s, t) == Cardinality({i \in 1..Len(s) : OccursAt(s, t, i)})

(***************************************************************************)
(* clean_response: one operator per re.sub, applied in the code's order.   *)
(***************************************************************************)

\* The index >= k at which the closing delimiter d of  d(.*?)d  matches,
\* 0 if none: the dot does not match a newline, and the lazy star stops at the
\* first place where d follows.
RECURSIVE CloseEmph(_, _, _)
CloseEmph(s, d, k) ==
    IF k + Len(d) - 1 > Len(s) THEN 0
    ELSE IF OccursAt(s, d, k) THEN k
    ELSE IF s[k] = "\n" THEN 0
    ELSE CloseEmph(s, d, k + 1)

\* re.sub(d(.*?)d, \1, s) from index i on: leftmost matches, not overlapping.
RECURSIVE SubEmph(_, _, _)
SubEmph(s, d, i) ==
    IF i > Len(s) THEN <<>>
    ELSE LET j == IF OccursAt(s, d, i) THEN CloseEmph(s, d, i + Len(d)) ELSE 0
         IN  IF j # 0
             THEN SubSeq(s, i + Len(d), j - 1) \o SubEmph(s, d, j + Len(d))
             ELSE <<s[i]>> \o SubEmph(s, d, i + 1)

StripBold(s) == SubEmph(s, <<"*", "*">>, 1)
StripItalicStar(s) == SubEmph(s, <<"*">>, 1)
StripItalicUnderscore(s) == SubEmph(s, <<"_">>, 1)
StripBoldUnderscore(s) == SubEmph(s, <<"_", "_">>, 1)

\* The first index >= i whose character is not '#' (Len(s)+1 if none).
RECURSIVE SkipHashes(_, _)
SkipHashes(s, i) ==
    IF i <= Len(s) /\ s[i] = "#" THEN SkipHashes(s, i + 1) ELSE i

\* The first index >= i whose character is not whitespace.
RECURSIVE SkipSpaces(_, _)
SkipSpaces(s, i) ==
    IF i <= Len(s) /\ IsSpace(s[i]) THEN SkipSpaces(s, i + 1) ELSE i

\* re.sub(^#+\s*, '', s, MULTILINE) from index i on: ^ matches at the start
\* of the text and after each newline of the text.
RECURSIVE SubHeader(_, _)
SubHeader(s, i) ==
    IF i > Len(s) THEN <<>>
    ELSE IF (i = 1 \/ s[i - 1] = "\n") /\ s[i] = "#"
         THEN SubHeader(s, SkipSpaces(s, SkipHashes(s, i)))
         ELSE <<s[i]>> \o SubHeader(s, i + 1)

StripHeaders(s) == SubHeader(s, 1)

\* The backtick character (the lexer of TLA+ admits none inside a string).
Backtick == "<backtick>"

Fence == <<Backtick, Backtick, Backtick>>

\* The first index >= k at which t occurs in s, 0 if none.
RECURSIVE FindFrom(_, _, _)
FindFrom(s, t, k) ==
    IF k + Len(t) - 1 > Len(s) THEN 0
    ELSE IF OccursAt(s, t, k) THEN k
    ELSE FindFrom(s, t, k + 1)

\* re.sub of a fenced code block (three backticks, [\s\S]*?, three
\* backticks) by '' from index i on.
RECURSIVE SubFence(_, _)
SubFence(s, i) ==
    IF i > Len(s) THEN <<>>
    ELSE LET j == IF OccursAt(s, Fence, i) THEN FindFrom(s, Fence, i + 3) ELSE 0
         IN  IF j # 0
             THEN SubFence(s, j + 3)
             ELSE <<s[i]>> \o SubFence(s, i + 1)

StripFences(s) == SubFence(s, 1)

\* re.sub of an inline code span (a backtick, one or more characters that
\* are not backticks, a backtick) by its inner text, from index i on.
RECURSIVE SubInlineCode(_, _)
SubInlineCode(s, i) ==
    IF i > Len(s) THEN <<>>
    ELSE LET j == IF s[i] = Backtick /\ i + 1 <= Len(s) /\ s[i + 1] # Backtick
                  THEN FindFrom(s, <<Backtick>>, i + 2)
                  ELSE 0
         IN  IF j # 0
             THEN SubSeq(s, i + 1, j - 1) \o SubInlineCode(s, j + 1)
             ELSE <<s[i]>> \o SubInlineCode(s, i + 1)

StripInlineCode(s) == SubInlineCode(s, 1)

\* The end index of a match of \[([^\]]+)\]\([^\)]+\) starting at i, with
\* the index of its ']'; <<0, 0>> if there is no match at i.
LinkAt(s, i) ==
    IF ~(s[i] = "[" /\ i + 1 <= Len(s) /\ s[i + 1] # "]") THEN <<0, 0>>
    ELSE LET j == FindFrom(s, <<"]">>, i + 2)
         IN  IF j = 0 \/ j + 2 > Len(s) \/ s[j + 1] # "(" \/ s[j + 2] = ")"
             THEN <<0, 0>>
             ELSE LET k == FindFrom(s, <<")">>, j + 3)
                  IN  IF k = 0 THEN <<0, 0>> ELSE <<j, k>>

\* re.sub(\[([^\]]+)\]\([^\)]+\), \1, s) from index i on.
RECURSIVE SubLink(_, _)
SubLink(s, i) ==
    IF i > Len(s) THEN <<>>
    ELSE LET m == LinkAt(s, i)
         IN  IF m[1] # 0
             THEN SubSeq(s, i + 1, m[1] - 1) \o SubLink(s, m[2] + 1)
             ELSE <<s[i]>> \o SubLink(s, i + 1)

StripLinks(s) == SubLink(s, 1)

\* The first index >= i whose character is not a newline.
RECURSIVE SkipNewlines(_, _)
SkipNewlines(s, i) ==
    IF i <= Len(s) /\ s[i] = "\n" THEN SkipNewlines(s, i + 1) ELSE i

\* re.sub(\n{3,}, '\n\n', s) from index i on.
RECURSIVE SubNewlines(_, _)
SubNewlines(s, i) ==
    IF i > Len(s) THEN <<>>
    ELSE LET e == SkipNewlines(s, i)
         IN  IF e - i >= 3
             THEN <<"\n", "\n">> \o SubNewlines(s, e)
             ELSE <<s[i]>> \o SubNewlines(s, i + 1)

\* A sanitizer whose pattern is \n{3}: each three newlines become two.
RECURSIVE SubThreeNewlines(_, _)
SubThreeNewlines(s, i) ==
    IF i > Len(s) THEN <<>>
    ELSE IF OccursAt(s, <<"\n", "\n", "\n">>, i)
         THEN <<"\n", "\n">> \o SubThreeNewlines(s, i + 3)
         ELSE <<s[i]>> \o SubThreeNewlines(s, i + 1)

CollapseExactlyThree(s) == SubThreeNewlines(s, 1)

CollapseNewlines(s) == SubNewlines(s, 1)

\* The last index <= i whose character is not whitespace (0 if none).
RECURSIVE LastNonSpace(_, _)
LastNonSpace(s, i) ==
    IF i >= 1 /\ IsSpace(s[i]) THEN LastNonSpace(s, i - 1) ELSE i

\* A sanitizer that calls lstrip for strip.
StripLeft(s) == SubSeq(s, SkipSpaces(s, 1), Len(s))

\* str.strip()
Strip(s) == SubSeq(s, SkipSpaces(s, 1), LastNonSpace(s, Len(s)))

clean_response(text) ==
    IF IsFalsy(text) THEN text
    ELSE Strip(CollapseNewlines(StripLinks(StripInlineCode(StripFences(
           StripHeaders(StripBoldUnderscore(StripItalicUnderscore(
             StripItalicStar(StripBold(text))))))))))

(***************************************************************************)
(* chat: the request body and the prompt composer.                         *)
(***************************************************************************)

\* A key the JSON body does not hold.
Absent == <<"Absent">>

\* The history key when the JSON body does not hold it.
AbsentHistory == <<[absent |-> TRUE]>>

\* dict.get(key, default)
Get(value, default) == IF value = Absent THEN default ELSE value

SYSTEM_PROMPT == <<"SYSTEM_PROMPT">>

MetaHeader ==
    <<"H", "O", "R", "S", "E", " ", "I", "N", "F", "O", "R", "M", "A", "T",
      "I", "O", "N", ":", "\n">>

AgeLabel ==
    <<"H", "o", "r", "s", "e", " ", "A", "g", "e", ":", " ">>

BreedLabel ==
    <<"B", "r", "e", "e", "d", ":", " ">>

ActivityLabel ==
    <<"A", "c", "t", "i", "v", "i", "t", "y", " ", "L", "e", "v", "e", "l",
      ":", " ">>

DocHeader ==
    <<"H", "E", "A", "L", "T", "H", " ", "R", "E", "C", "O", "R", "D", " ",
      "D", "O", "C", "U", "M", "E", "N", "T", ":", "\n">>

QuestionAboutDoc ==
    <<"\n", "\n", "U", "S", "E", "R", " ", "Q", "U", "E", "S", "T", "I",
      "O", "N", " ", "(", "a", "b", "o", "u", "t", " ", "t", "h", "e", " ",
      "a", "b", "o", "v", "e", " ", "d", "o", "c", "u", "m", "e", "n", "t",
      ")", ":", " ">>

QuestionPlain ==
    <<"\n", "\n", "U", "S", "E", "R", " ", "Q", "U", "E", "S", "T", "I",
      "O", "N", ":", " ">>

\* sep.join(parts)
RECURSIVE Join(_, _)
Join(parts, sep) ==
    IF parts = <<>> THEN <<>>
    ELSE IF Len(parts) = 1 THEN parts[1]
    ELSE parts[1] \o sep \o Join(Tail(parts), sep)

\* A validation that tests for None alone: an empty string passes.
NothingToProcessNoneOnly(user_message, document_text) ==
    user_message = NoneText /\ document_text = NoneText

\* The validation of line 117: neither a message nor a document.
NothingToProcess(user_message, document_text) ==
    IsFalsy(user_message) /\ IsFalsy(document_text)

metadata_parts(horse_age, horse_breed, activity_level) ==
    (IF ~IsFalsy(horse_age) THEN <<AgeLabel \o horse_age>> ELSE <<>>)
    \o (IF ~IsFalsy(horse_breed) THEN <<BreedLabel \o horse_breed>> ELSE <<>>)
    \o (IF ~IsFalsy(activity_level)
        THEN <<ActivityLabel \o activity_level>> ELSE <<>>)

\* A document block that leaves the text out.
DocBlockHeaderOnly(document_text) == DocHeader

\* The document block appended to context_parts.
DocBlock(document_text) == DocHeader \o document_text

context_parts(document_text, horse_age, horse_breed, activity_level) ==
    LET parts == metadata_parts(horse_age, horse_breed, activity_level)
    IN  (IF parts # <<>>
         THEN <<MetaHeader \o Join(parts, <<",", " ">>) \o <<"\n">>>>
         ELSE <<>>)
        \o (IF ~IsFalsy(document_text) THEN <<DocBlock(document_text)>> ELSE <<>>)

\* A composer that words every question the plain way.
ComposeContentPlain(user_message, document_text, parts) ==
    IF parts # <<>>
    THEN Join(parts, <<"\n", "\n">>)
         \o (IF ~IsFalsy(user_message)
             THEN QuestionPlain \o user_message
             ELSE <<>>)
    ELSE user_message

\* user_content as lines 161-171 leave it.
ComposeContent(user_message, document_text, parts) ==
    IF parts # <<>>
    THEN Join(parts, <<"\n", "\n">>)
         \o (IF ~IsFalsy(user_message)
             THEN (IF ~IsFalsy(document_text)
                   THEN QuestionAboutDoc \o user_message
                   ELSE QuestionPlain \o user_message)
             ELSE <<>>)
    ELSE user_message

\* The guard of line 174.
FallbackNeeded(document_text, user_content) ==
    ~IsFalsy(document_text) /\ ~Contains(user_content, document_text)

\* user_content as line 175 leaves it when the guard holds.
WithFallback(document_text, user_content) ==
    IF FallbackNeeded(document_text, user_content)
    THEN DocHeader \o document_text \o <<"\n", "\n">> \o user_content
    ELSE user_content

\* conversation_history[-10:]
HistoryWindow == 10

RecentHistory(history) ==
    IF Len(history) > HistoryWindow
    THEN SubSeq(history, Len(history) - HistoryWindow + 1, Len(history))
    ELSE history

\* A loop that takes each sender for a role.
TranslateEntryAnySender(msg) ==
    <<[role |-> msg.sender, content |-> Get(msg.text, <<>>)]>>

\* A loop whose second branch appends the role of the first.
TranslateEntryAsUser(msg) ==
    IF msg.sender \in {"user", "assistant"}
    THEN <<[role |-> "user", content |-> Get(msg.text, <<>>)]>>
    ELSE <<>>

\* The body of the loop of lines 147-157 for one entry.
TranslateEntry(msg) ==
    IF msg.sender = "user"
    THEN <<[role |-> "user", content |-> Get(msg.text, <<>>)]>>
    ELSE IF msg.sender = "assistant"
    THEN <<[role |-> "assistant", content |-> Get(msg.text, <<>>)]>>
    ELSE <<>>

RECURSIVE TranslateAll(_)
TranslateAll(entries) ==
    IF entries = <<>> THEN <<>>
    ELSE TranslateEntry(Head(entries)) \o TranslateAll(Tail(entries))

\* A loop that drops the other senders first and keeps the last 10 after.
HistoryMessagesFilterFirst(history) == RecentHistory(TranslateAll(history))

\* The messages the loop of lines 147-157 appends.
HistoryMessages(history) == TranslateAll(RecentHistory(history))

\* The fields of the body as lines 107-114 read them.
UserMessage(data) == Get(data.message, <<>>)
DocumentText(data) == Get(data.document_text, <<>>)
ConversationHistory(data) ==
    IF data.history = AbsentHistory THEN <<>> ELSE data.history

ContextOf(data) ==
    context_parts(DocumentText(data), Get(data.horse_age, <<>>),
                  Get(data.horse_breed, <<>>), Get(data.activity_level, <<>>))

\* user_content before the check of line 174.
ContentBeforeFallback(data) ==
    ComposeContent(UserMessage(data), DocumentText(data), ContextOf(data))

\* A composer that sends a question alone when there is one.
UserContentQuestionOnly(data) ==
    IF ~IsFalsy(UserMessage(data))
    THEN UserMessage(data)
    ELSE WithFallback(DocumentText(data), ContentBeforeFallback(data))

\* user_content as appended at line 177.
UserContent(data) ==
    WithFallback(DocumentText(data), ContentBeforeFallback(data))

\* The list passed to client.chat.completions.create.
BuildMessages(data) ==
    <<[role |-> "system", content |-> SYSTEM_PROMPT]>>
    \o HistoryMessages(ConversationHistory(data))
    \o <<[role |-> "user", content |-> UserContent(data)]>>

(***************************************************************************)
(* Inputs.                                                                 *)
(***************************************************************************)

\* The longest message and document text of a request.
MaxStr == 1

\* The longest history of a request of Spec.
MaxHist == 2

\* The longest history of a request of SpecHist (more than HistoryWindow).
MaxLongHist == 11

\* The most tokens of a text handed to clean_response in SpecClean.
MaxTokens == 4

\* The texts of at most n letters (letters that no label of the prompt holds).
Strs(n) == UNION {[1..k -> {"x", "z"}] : k \in 0..n}

\* A message that quotes a document block.
QuotedBlock == DocHeader \o <<"x">>

MessageValues == {Absent} \cup Strs(MaxStr) \cup {QuotedBlock}

DocumentValues == {Absent} \cup Strs(MaxStr)

AgeValues == {<<>>, <<"8">>}

BreedValues == {Absent, <<"C", "o", "b">>}

ActivityValues == {<<>>, <<"l", "o", "w">>}

Senders == {"user", "assistant", "system"}

\* The text of the i-th entry of a history: one letter per position.
Letters ==
    <<"a", "b", "c", "d", "e", "f", "g", "h", "i", "j", "k", "l", "m", "n",
      "o", "p">>

EntryText(i) == <<Letters[i]>>

\* The histories of at most n entries, each sender one of Senders.
Histories(n) ==
    UNION {{[i \in 1..k |-> [sender |-> ss[i], text |-> EntryText(i)]] :
              ss \in [1..k -> Senders]} : k \in 0..n}

Ex1 ==
    <<"*", "*", "H", "e", "l", "l", "o", "*", "*", " ", "_", "w", "o", "r",
      "l", "d", "_">>

Ex2 ==
    <<"#", " ", "T", "i", "t", "l", "e", "\n", "\n", "S", "o", "m", "e",
      " ", Backtick, "c", "o", "d", "e", Backtick, " ", "h", "e", "r", "e">>

\* What choices[0].message.content may hold when the call returns.
ModelContents == {NoneText, Ex1, Ex2}

\* How the call, or the reading of its result, may fail.
Failures == {"create raised", "no first choice"}

Tokens ==
    { <<"*">>, <<"*", "*">>, <<"_">>, <<"#">>, <<Backtick>>, Fence, <<"[">>,
      <<"]", "(", "a", ")">>, <<"\n">>, <<"\n", "\n">>, <<" ">>, <<"a">> }

(***************************************************************************)
(* State.                                                                  *)
(***************************************************************************)

VARIABLES
    data,            \* request.json, each key a value or Absent
    pc,              \* where the handler (or the sanitizer run) stands
    messages,        \* the list built for the model call
    fallback_taken,  \* whether line 175 ran
    calls,           \* the calls of client.chat.completions.create made
    outcome,         \* "none", "returned" or a failure of the call
    status,          \* the HTTP status answered, 0 before the answer
    body,            \* the JSON payload answered
    text,            \* the argument of clean_response
    emitted,         \* the tokens that make up text
    once,            \* clean_response(text)
    twice            \* clean_response(clean_response(text))

vars ==
    <<data, pc, messages, fallback_taken, calls, outcome, status, body,
      text, emitted, once, twice>>

RequiredError == "Either message or document_text is required"

GenericError == "An error occurred while processing your request"

NoData ==
    [message |-> Absent, document_text |-> Absent, history |-> AbsentHistory,
     horse_age |-> Absent, horse_breed |-> Absent, activity_level |-> Absent]

Idle ==
    /\ messages = <<>>
    /\ fallback_taken = FALSE
    /\ calls = 0
    /\ outcome = "none"
    /\ status = 0
    /\ body = [none |-> TRUE]

NoText == text = <<>> /\ emitted = 0 /\ once = <<>> /\ twice = <<>>

\* A request has arrived at POST /api/chat.
Init ==
    /\ data \in [message : MessageValues, document_text : DocumentValues,
                 history : {AbsentHistory} \cup Histories(MaxHist),
                 horse_age : AgeValues, horse_breed : BreedValues,
                 activity_level : ActivityValues]
    /\ pc = "start"
    /\ Idle
    /\ NoText

\* Lines 106-118: the body is read and has nothing to process.
ChatReject ==
    /\ pc = "start"
    /\ NothingToProcess(UserMessage(data), DocumentText(data))
    /\ status' = 400
    /\ body' = [error |-> RequiredError]
    /\ pc' = "done"
    /\ UNCHANGED <<data, messages, fallback_taken, calls, outcome, text,
                   emitted, once, twice>>

\* Lines 106-180: the body is read and the message list is built.
ChatCompose ==
    /\ pc = "start"
    /\ ~NothingToProcess(UserMessage(data), DocumentText(data))
    /\ messages' = BuildMessages(data)
    /\ fallback_taken' =
         FallbackNeeded(DocumentText(data), ContentBeforeFallback(data))
    /\ pc' = "call"
    /\ UNCHANGED <<data, calls, outcome, status, body, text, emitted, once,
                   twice>>

\* Lines 183-199: the call returns, its content is cleaned and answered.
ModelReturns(content) ==
    /\ pc = "call"
    /\ calls' = calls + 1
    /\ outcome' = "returned"
    /\ status' = 200
    /\ body' = [response |-> clean_response(content), success |-> TRUE]
    /\ pc' = "done"
    /\ UNCHANGED <<data, messages, fallback_taken, text, emitted, once, twice>>

\* A handler that calls again when the call fails.
ModelFailsRetry(failure) ==
    /\ pc = "call"
    /\ calls < 2
    /\ calls' = calls + 1
    /\ outcome' = failure
    /\ UNCHANGED <<data, pc, messages, fallback_taken, status, body, text,
                   emitted, once, twice>>

\* Lines 183-191 and 201-206: the call raises, or its result has no first
\* choice to read; the except clause answers.
ModelFails(failure) ==
    /\ pc = "call"
    /\ calls' = calls + 1
    /\ outcome' = failure
    /\ status' = 500
    /\ body' = [error |-> GenericError, details |-> failure]
    /\ pc' = "done"
    /\ UNCHANGED <<data, messages, fallback_taken, text, emitted, once, twice>>

Next ==
    \/ ChatReject
    \/ ChatCompose
    \/ \E content \in ModelContents : ModelReturns(content)
    \/ \E failure \in Failures : ModelFails(failure)

Spec == Init /\ [][Next]_vars

\* A conversation not yet posted: the request holds a question and the
\* history the client has kept so far.
InitHist ==
    /\ data = [NoData EXCEPT !.message = <<"a">>, !.history = <<>>]
    /\ pc = "start"
    /\ Idle
    /\ NoText

\* The client keeps one more entry of the conversation before it posts.
ClientKeeps(sender) ==
    /\ pc = "start"
    /\ Len(data.history) < MaxLongHist
    /\ data' = [data EXCEPT !.history =
                  Append(@, [sender |-> sender,
                             text |-> EntryText(Len(@) + 1)])]
    /\ UNCHANGED <<pc, messages, fallback_taken, calls, outcome, status, body,
                   text, emitted, once, twice>>

NextHist ==
    \/ \E sender \in Senders : ClientKeeps(sender)
    \/ ChatCompose

SpecHist == InitHist /\ [][NextHist]_vars

\* The model starts its reply: no content (None), or a text still empty.
InitClean ==
    /\ data = NoData
    /\ pc = "reply"
    /\ Idle
    /\ text \in {NoneText, <<>>}
    /\ emitted = 0
    /\ once = <<>>
    /\ twice = <<>>

\* The model adds a token to the text of its reply.
ModelEmits(token) ==
    /\ pc = "reply"
    /\ text # NoneText
    /\ emitted < MaxTokens
    /\ text' = text \o token
    /\ emitted' = emitted + 1
    /\ UNCHANGED <<data, pc, messages, fallback_taken, calls, outcome, status,
                   body, once, twice>>

\* clean_response(text)
CleanOnce ==
    /\ pc = "reply"
    /\ once' = clean_response(text)
    /\ pc' = "cleaned"
    /\ UNCHANGED <<data, messages, fallback_taken, calls, outcome, status,
                   body, text, emitted, twice>>

\* clean_response applied to its own result.
CleanTwice ==
    /\ pc = "cleaned"
    /\ twice' = clean_response(once)
    /\ pc' = "recleaned"
    /\ UNCHANGED <<data, messages, fallback_taken, calls, outcome, status,
                   body, text, emitted, once>>

NextClean ==
    \/ \E token \in Tokens : ModelEmits(token)
    \/ CleanOnce
    \/ CleanTwice

SpecClean == InitClean /\ [][NextClean]_vars

(***************************************************************************)
(* Properties.                                                             *)
(***************************************************************************)

\* A field of the body that is empty or absent.
Missing(value) == value \in {Absent, <<>>}

\* The message list has been built.
Composed == pc \in {"call", "done"} /\ messages # <<>>

\* The content of the final message of the list.
FinalContent == messages[Len(messages)].content

\* The history a request holds.
SourceHistory == IF data.history = AbsentHistory THEN <<>> ELSE data.history

\* The indices of the last min(N, 10) entries of the history whose sender is
\* user or assistant.
KeptIndices ==
    LET n == Len(SourceHistory)
        first == IF n > 10 THEN n - 10 + 1 ELSE 1
    IN  {i \in first..n : SourceHistory[i].sender \in {"user", "assistant"}}

\* The place among the history messages of the kept entry i.
Rank(i) == Cardinality({k \in KeptIndices : k <= i})

\* The messages between the system message and the final user message.
HistoryPart == SubSeq(messages, 2, Len(messages) - 1)

NoAdjacentSameRole ==
    \A j \in 1..(Len(HistoryPart) - 1) :
        HistoryPart[j].role # HistoryPart[j + 1].role

\* C1: a request whose message and document_text are both empty or absent
\* is answered 400 with the error "Either message or document_text is
\* required", whatever its history and metadata: it is never composed and
\* the model is never called for it.
C1_EmptyRequestRejected ==
    (Missing(data.message) /\ Missing(data.document_text))
    => /\ pc \in {"start", "done"}
       /\ messages = <<>>
       /\ calls = 0
       /\ pc = "done" => status = 400 /\ body = [error |-> RequiredError]

C1_Witness ==
    /\ pc = "done"
    /\ status = 400
    /\ data.message = <<>>
    /\ data.document_text = Absent
    /\ data.history # AbsentHistory
    /\ Len(data.history) = 2
    /\ data.horse_age = <<"8">>

\* C2: when document_text is not empty, the content of the final user
\* message contains document_text as a substring, for every message,
\* metadata and history.
C2_DocumentInContent ==
    (Composed /\ ~Missing(data.document_text))
    => /\ messages[Len(messages)].role = "user"
       /\ Contains(FinalContent, data.document_text)

C2_Witness ==
    /\ Composed
    /\ data.document_text = <<"x">>
    /\ data.message = <<"z">>
    /\ data.horse_age = <<"8">>
    /\ data.history # AbsentHistory
    /\ Len(data.history) = 2

\* C3: the history messages are exactly the entries among the last
\* min(N, 10) source entries whose sender is user or assistant, in their
\* order, each with its sender for role and its text for content; no older
\* entry fills the place of a dropped one.
C3_HistoryTranslation ==
    Composed
    => /\ Len(HistoryPart) = Cardinality(KeptIndices)
       /\ \A i \in KeptIndices :
            HistoryPart[Rank(i)] =
              [role |-> SourceHistory[i].sender,
               content |-> SourceHistory[i].text]
       /\ \A j \in 1..Len(HistoryPart) :
            \A i \in 1..(Len(SourceHistory) - 10) :
              HistoryPart[j].content # SourceHistory[i].text

C3_Witness ==
    /\ Composed
    /\ Len(SourceHistory) = 11
    /\ SourceHistory[1].sender = "user"
    /\ SourceHistory[2].sender = "system"
    /\ SourceHistory[5].sender = "system"
    /\ SourceHistory[11].sender = "assistant"
    /\ Len(HistoryPart) = 8

\* C4: for a request that passes validation the model is called once; when
\* the call fails (it raises, or its result has no first choice to read)
\* the answer is 500 with error and details, there is no second call, and
\* no answer holds part of a result.
C4_SingleAttempt ==
    /\ calls <= 1
    /\ pc = "call" => calls = 0 /\ status = 0
    /\ (pc = "done" /\ status # 400) => calls = 1
    /\ outcome \in Failures
       => /\ pc = "done"
          /\ calls = 1
          /\ status = 500
          /\ DOMAIN body = {"error", "details"}
          /\ body.error = GenericError
          /\ body.details = outcome
    /\ (pc = "done" /\ status = 200)
       => outcome = "returned" /\ DOMAIN body = {"response", "success"}

C4_Witness ==
    /\ pc = "done"
    /\ outcome = "no first choice"
    /\ status = 500
    /\ calls = 1

\* C5 as stated: clean_response(clean_response(t)) = clean_response(t) for
\* every text t.
C5_Idempotent == pc = "recleaned" => twice = once

\* A text that holds no '#', no backtick and no '['.
NoHeaderCodeOrLink(t) ==
    \A i \in 1..Len(t) : t[i] \notin {"#", Backtick, "["}

\* C5 as amended: clean_response(clean_response(t)) = clean_response(t) for
\* every text t that holds no '#', no backtick and no '['.
C5_IdempotentWithoutHeaderCodeOrLink ==
    (pc = "recleaned" /\ NoHeaderCodeOrLink(text)) => twice = once

C5_Witness ==
    /\ pc = "recleaned"
    /\ NoHeaderCodeOrLink(text)
    /\ Contains(text, <<"*">>)
    /\ Contains(text, <<"\n", "\n", "\n">>)
    /\ once # text
    /\ once # <<>>
    /\ twice = once

\* C8: for a text that is not empty, the result of clean_response holds no
\* three newlines in a row and neither starts nor ends with whitespace; an
\* empty or absent text is returned as it is.
C8_CollapsedAndTrimmed ==
    pc \in {"cleaned", "recleaned"}
    => IF text \in {<<>>, NoneText}
       THEN once = text
       ELSE /\ ~Contains(once, <<"\n", "\n", "\n">>)
            /\ once # <<>> => ~IsSpace(once[1]) /\ ~IsSpace(once[Len(once)])
            /\ once # NoneText

C8_Witness ==
    /\ pc = "cleaned"
    /\ text = <<"a", "\n", "\n", "\n", "a">>
    /\ once = <<"a", "\n", "\n", "a">>

\* C6: the first message of the list is the system message with the fixed
\* prompt, no other message has the role system, and the last message has
\* the role user and carries the composed content (the message and the
\* document of the request, when given).
C6_SystemFirstUserLast ==
    Composed
    => /\ Len(messages) >= 2
       /\ messages[1] = [role |-> "system", content |-> SYSTEM_PROMPT]
       /\ \A i \in 2..Len(messages) : messages[i].role # "system"
       /\ messages[Len(messages)].role = "user"
       /\ FinalContent # <<>>
       /\ ~Missing(data.message) => EndsWith(FinalContent, data.message)
       /\ ~Missing(data.document_text)
          => Contains(FinalContent, DocHeader \o data.document_text)

C6_Witness ==
    /\ Composed
    /\ Len(SourceHistory) = 2
    /\ SourceHistory[1].sender = "system"
    /\ SourceHistory[2].sender = "user"
    /\ Len(messages) = 3
    /\ ~Missing(data.message)
    /\ ~Missing(data.document_text)

UserQuestionWords ==
    <<"U", "S", "E", "R", " ", "Q", "U", "E", "S", "T", "I", "O", "N">>

\* C7: with a document and a message the content ends with "\n\nUSER
\* QUESTION (about the above document): " and the message; with a message
\* and neither document nor metadata the content is the message; with a
\* document and no message the content ends with the document block and
\* holds no USER QUESTION suffix.
C7_QuestionCases ==
    Composed
    => /\ (~Missing(data.document_text) /\ ~Missing(data.message))
          => EndsWith(FinalContent, QuestionAboutDoc \o data.message)
       /\ (Missing(data.document_text) /\ ~Missing(data.message)
           /\ Missing(data.horse_age) /\ Missing(data.horse_breed)
           /\ Missing(data.activity_level))
          => FinalContent = data.message
       /\ (~Missing(data.document_text) /\ Missing(data.message))
          => /\ EndsWith(FinalContent, DocHeader \o data.document_text)
             /\ ~Contains(FinalContent, UserQuestionWords)

C7_Witness ==
    /\ Composed
    /\ data.document_text = <<"x">>
    /\ data.message = <<"z">>
    /\ data.horse_age = <<"8">>
    /\ EndsWith(FinalContent, QuestionAboutDoc \o <<"z">>)

\* C9 as stated: no two adjacent history messages have the same role.
C9_HistoryAlternates == Composed => NoAdjacentSameRole

\* The kept entries of the history alternate in sender.
KeptSendersAlternate ==
    \A i, j \in KeptIndices :
        (i < j /\ ~\E k \in KeptIndices : i < k /\ k < j)
        => SourceHistory[i].sender # SourceHistory[j].sender

\* C9 as amended: every history message has the role user or assistant,
\* and no two adjacent history messages have the same role whenever the
\* user and assistant entries among the last 10 source entries alternate
\* in sender.
C9_AlternatesWhenSourceDoes ==
    Composed
    => /\ \A j \in 1..Len(HistoryPart) :
            HistoryPart[j].role \in {"user", "assistant"}
       /\ KeptSendersAlternate => NoAdjacentSameRole

C9_Witness ==
    /\ Composed
    /\ Len(SourceHistory) = 2
    /\ SourceHistory[1].sender = "user"
    /\ SourceHistory[2].sender = "assistant"
    /\ Len(HistoryPart) = 2
    /\ NoAdjacentSameRole

DocTitle ==
    <<"H", "E", "A", "L", "T", "H", " ", "R", "E", "C", "O", "R", "D", " ",
      "D", "O", "C", "U", "M", "E", "N", "T", ":">>

\* How often the document block of the request occurs in the content.
BlockOccurrences == Occurrences(FinalContent, DocHeader \o data.document_text)

\* C10 as stated: with a document the guard of the fallback is false and the
\* document block occurs exactly once in the content.
C10_FallbackDeadBlockOnce ==
    (Composed /\ ~Missing(data.document_text))
    => ~fallback_taken /\ BlockOccurrences = 1

\* No field other than document_text holds "HEALTH RECORD DOCUMENT:".
NoQuotedTitle ==
    \A f \in {data.message, data.horse_age, data.horse_breed,
              data.activity_level} : ~Contains(f, DocTitle)

\* C10 as amended: with a document the guard of the fallback is false, so
\* no second block is put before the content; the block occurs at least
\* once, and exactly once when no other field of the request holds the
\* text "HEALTH RECORD DOCUMENT:".
C10_FallbackDead ==
    (Composed /\ ~Missing(data.document_text))
    => /\ ~fallback_taken
       /\ BlockOccurrences >= 1
       /\ NoQuotedTitle => BlockOccurrences = 1

C10_Witness ==
    /\ Composed
    /\ data.document_text = <<"x">>
    /\ data.message = <<"x">>
    /\ ~fallback_taken
    /\ BlockOccurrences = 1

====
